---- MODULE Spec2Model ----
(***************************************************************************)
(* A model of the agents-workshop orchestration layer.                     *)
(*                                                                         *)
(*   Spec      the two top-level entry points, Agent.execute (with the     *)
(*             classification-routed graph) and AgentExecutor.execute      *)
(*             (with the Orchestrator), called concurrently by the UI;     *)
(*   SpecLoop  AgentWorker.execute and its tool-call loop;                 *)
(*   SpecConfirm  the same loop with tools the user may decline;           *)
(*   SpecDep   the dependency-scheduled graph of graph.ts / nodes.ts.      *)
(*                                                                         *)
(* Texts (JavaScript strings) are sequences of tokens: '' is <<>>, and a   *)
(* template string is the sequence of its parts.                           *)
(***************************************************************************)
EXTENDS Integers, Sequences, FiniteSets, TLC

\* ------------------------------------------------------------- bounds
\* Number of execute() invocations that can be outstanding at once.
MaxCalls == 2
\* Longest plan the Orchestrator's planner returns.
MaxOrchSubtasks == 2
\* Largest maxToolCalls executeWithToolLoop is run with.
MaxCap == 2
\* Most tool calls in one model response.
MaxRoundCalls == 2
\* Longest plan of the dependency-scheduled graph.
MaxSubtasks == 2
\* Most confirmed changes of the WorkspaceManager (k).
MaxChanges == 2

\* ------------------------------------------------------------- texts
Str(s) == << s >>
EmptyText == << >>
\* JavaScript's undefined and null, as texts no program string equals.
Undefined == << "<undefined>" >>
Null == << "<null>" >>
\* JavaScript truthiness of a string-or-null-or-undefined value.
Truthy(t) == t # EmptyText /\ t # Undefined /\ t # Null
\* The `next ?? prev` reducer of every channel but results.
Reduce(prev, next) == IF next = Undefined \/ next = Null THEN prev ELSE next
\* The results reducer ({ ...prev, ...next }).
MergeResults(prev, next) ==
    [k \in (DOMAIN prev) \cup (DOMAIN next) |->
        IF k \in DOMAIN next THEN next[k] ELSE prev[k]]
NoResults == [k \in {} |-> 0]

END == "__end__"
Calls == 1 .. MaxCalls
Files == {"f1"}

\* ------------------------------------------------------------- queries
AcceptPrefix == "Accept changes for file:"
RejectPrefix == "Reject changes for file:"
\* A query is its command prefix (or none), whether the rest is blank, and
\* whether it holds one of the generation keywords.
Queries ==
    { [prefix |-> "", blank |-> FALSE, keyword |-> FALSE, path |-> ""],
      [prefix |-> "", blank |-> FALSE, keyword |-> TRUE, path |-> ""],
      [prefix |-> "", blank |-> TRUE, keyword |-> FALSE, path |-> ""] }
    \cup { [prefix |-> p, blank |-> FALSE, keyword |-> FALSE, path |-> f] :
            p \in {AcceptPrefix, RejectPrefix}, f \in Files }
NoQuery == [prefix |-> "", blank |-> TRUE, keyword |-> FALSE, path |-> ""]
IsFileChangeCommand(q) == q.prefix \in {AcceptPrefix, RejectPrefix}
IsEmptyQuery(q) == q.blank
HasGenerationKeyword(q) == q.keyword

\* ------------------------------------------------------------- results
ExecutionResult(ok, response, error) ==
    [success |-> ok, response |-> response, error |-> error]
Failure(error) == ExecutionResult(FALSE, Undefined, error)
Success(response) == ExecutionResult(TRUE, response, Undefined)
\* A WorkerResponse; toolsUsed is Undefined when the field is not set.
WorkerResultWithTools(ok, result, error, used) ==
    [success |-> ok, result |-> result, error |-> error, toolsUsed |-> used]
WorkerResult(ok, result, error) == WorkerResultWithTools(ok, result, error, Undefined)
\* The names of response.tool_calls, in the order of the answer.
ToolCallNames(reply) == IF reply = "tools" THEN << "editAndShowDiff" >> ELSE << >>

AlreadyExecuting == Str("Another task is already being executed")
NoWorkspaceFolder == Str("No workspace folder is open. Please open a folder in VS Code to use the agent features.")
EmptyQueryError == Str("Empty or invalid query provided")
NoWorkspaceAccess == Str("The agent cannot access workspace files. Please make sure a folder is open in VS Code.")

VARIABLES
    apiKey,               \* config.getApiKey() is non-empty
    entry,                \* the entry-point class the panel was built with
    agentIsExecuting,     \* Agent._isExecuting
    executorIsExecuting,  \* AgentExecutor._isExecuting
    pc,                   \* where each execute() invocation is suspended
    call,                 \* the object and query of each outstanding invocation
    run,                  \* the graph state of each invocation of Agent.execute
    orch,                 \* the locals of each Orchestrator.execute
    pendingFileChanges,   \* keys of the pendingFileChanges map
    lastReturn,           \* the value the step just taken returned, if any
    \* AgentWorker.execute / executeWithToolLoop
    lpc,                  \* where the worker is: idle, llm, tools, done
    maxToolCalls,         \* the loop's cap
    round,                \* the loop counter i
    messages,             \* the conversation
    toolsUsed,            \* names of the tools run
    llmMessage,           \* data.choices[0].message of the last model response
    callIndex,            \* index of the tool call being processed
    modelCalls,           \* number of callLLM invocations so far
    workerReturn,         \* the WorkerResponse execute returned
    \* the dependency-scheduled graph
    graph,                \* its state channels, the node to run, the nodes run
    \* WorkspaceManager
    fsFiles,              \* the content of each file of the workspace, if it exists
    changeHistory,        \* WorkspaceManager.changeHistory
    undoLog               \* the calls made so far and what the last one returned

execVars == << apiKey, entry, agentIsExecuting, executorIsExecuting, pc, call, run,
               orch, pendingFileChanges, lastReturn >>

loopVars == << lpc, maxToolCalls, round, messages, toolsUsed, llmMessage, callIndex,
               modelCalls,
               workerReturn >>

depVars == << graph >>

wsVars == << fsFiles, changeHistory, undoLog >>

vars == << execVars, loopVars, depVars, wsVars >>

NoReturn == [call |-> 0, object |-> "none", command |-> FALSE,
             value |-> ExecutionResult(FALSE, Undefined, Undefined)]
Returned(c, obj, q, v) ==
    [call |-> c, object |-> obj, command |-> IsFileChangeCommand(q), value |-> v]


\* ------------------------------------------------- classification graph
TaskTypes == {"executeAnalysisTask", "executeGenerationTask",
              "executeAnalysisWithGeneration", "handleIrrelevantQuery"}
\* Property names every object literal inherits from Object.prototype:
\* called as a handler, the first two return a value with neither subtask
\* nor nextStep, the others throw a TypeError.
InheritedCallable == {"toString", "constructor"}
InheritedThrowing == {"__proto__", "valueOf", "hasOwnProperty"}
Throws == "<throws>"
\* What the classifying model call can produce: a token, no text, a failure.
ClassifierReplies ==
    TaskTypes \cup {"explainCode", "toString", "__proto__", "", Throws}
\* What a subtask's model call can produce.
TaskReplies == {"text", "empty", "tools", Throws}
SynthesisReplies == {"text", "", Throws}

NoUpdate ==
    [currentSubtask |-> "undefined", results |-> NoResults,
     finalResult |-> Undefined, nextStep |-> "undefined", error |-> Undefined,
     requiresGeneration |-> FALSE]

InitialState(q) ==
    [node |-> "planExecution", query |-> q, requiresGeneration |-> FALSE,
     currentSubtask |-> "null", results |-> NoResults,
     finalResult |-> Undefined, nextStep |-> "planExecution", error |-> Null,
     trace |-> << >>, token |-> "", outcomes |-> << >>]
NoRun == [InitialState(NoQuery) EXCEPT !.node = "none", !.nextStep = "none"]

ReduceName(prev, next) == IF next \in {"undefined", "null"} THEN prev ELSE next

ApplyUpdate(s, u) ==
    [s EXCEPT !.currentSubtask = ReduceName(@, u.currentSubtask),
              !.results = MergeResults(@, u.results),
              !.finalResult = Reduce(@, u.finalResult),
              !.nextStep = ReduceName(@, u.nextStep),
              !.error = Reduce(@, u.error),
              !.requiresGeneration = @ \/ u.requiresGeneration]

\* createSubtask: the subtask's id is its type.
createSubtask(type) == type

\* taskHandlers[content] || default, then handler().
TaskHandler(content) ==
    CASE content = "executeAnalysisTask" ->
            [subtask |-> createSubtask("analysis"), nextStep |-> "executeAnalysisTask",
             requiresGeneration |-> FALSE, throws |-> FALSE]
      [] content = "executeGenerationTask" ->
            [subtask |-> createSubtask("generation"), nextStep |-> "executeGenerationTask",
             requiresGeneration |-> FALSE, throws |-> FALSE]
      [] content = "executeAnalysisWithGeneration" ->
            [subtask |-> createSubtask("analysis"), nextStep |-> "executeAnalysisTask",
             requiresGeneration |-> TRUE, throws |-> FALSE]
      [] content = "handleIrrelevantQuery" ->
            [subtask |-> "null", nextStep |-> "handleIrrelevantQuery",
             requiresGeneration |-> FALSE, throws |-> FALSE]
      [] content \in InheritedCallable ->
            [subtask |-> "undefined", nextStep |-> "undefined",
             requiresGeneration |-> FALSE, throws |-> FALSE]
      [] content \in InheritedThrowing ->
            [subtask |-> "undefined", nextStep |-> "undefined",
             requiresGeneration |-> FALSE, throws |-> TRUE]
      [] OTHER ->
            [subtask |-> "null", nextStep |-> END,
             requiresGeneration |-> FALSE, throws |-> FALSE]

\* The classification planExecution logs ("Task type determined: ..."): the
\* model's trimmed reply, once there is one.
Classified(s, key, reply) ==
    IF ~IsEmptyQuery(s.query) /\ key /\ reply \notin {Throws, ""} THEN reply ELSE ""

\* planExecution of the classification-routed graph.
ClassifyUpdate(s, key, reply) ==
    IF IsEmptyQuery(s.query)
    THEN [NoUpdate EXCEPT !.error = Str("Task is missing or invalid"), !.nextStep = END]
    ELSE IF ~key
    THEN [NoUpdate EXCEPT !.error = Str("No API key found"), !.nextStep = END]
    ELSE IF reply = Throws
    THEN [NoUpdate EXCEPT !.error = << "Error analysing task: ", "Error" >>, !.nextStep = END]
    ELSE IF reply = ""
    THEN [NoUpdate EXCEPT !.error = << "Error analysing task: ", "Error: Empty response from LLM API" >>,
                          !.nextStep = END]
    ELSE LET h == TaskHandler(reply) IN
         IF h.throws
         THEN [NoUpdate EXCEPT !.error = << "Error analysing task: ", "TypeError" >>,
                               !.nextStep = END]
         ELSE [NoUpdate EXCEPT !.currentSubtask = h.subtask, !.nextStep = h.nextStep,
                               !.requiresGeneration = h.requiresGeneration]

\* Faulty routers: one that swaps the two executors, one whose default case
\* falls through to Analysis.
routeFromOrchestrator_Swapped(s) ==
    CASE s.nextStep = "executeAnalysisTask" -> "executeGenerationTask"
      [] s.nextStep = "executeGenerationTask" -> "executeAnalysisTask"
      [] OTHER -> END
routeFromOrchestrator_DefaultAnalysis(s) ==
    IF s.nextStep = "handleIrrelevantQuery" THEN END
    ELSE IF s.nextStep = "executeGenerationTask" THEN "executeGenerationTask"
    ELSE "executeAnalysisTask"

routeFromOrchestrator(s) ==
    IF s.nextStep = "handleIrrelevantQuery" THEN END
    ELSE CASE s.nextStep = "executeAnalysisTask" -> "executeAnalysisTask"
           [] s.nextStep = "executeGenerationTask" -> "executeGenerationTask"
           [] s.nextStep = "executeAnalysisWithGeneration" -> "executeAnalysisTask"
           [] OTHER -> END

\* A router that also looks at the flag set at Plan time.
routeFromAnalysis_ByFlag(s) ==
    IF s.requiresGeneration \/ s.nextStep = "executeGenerationTask"
    THEN "executeGenerationTask"
    ELSE "synthesizeResults"

routeFromAnalysis(s) ==
    IF s.nextStep = "executeGenerationTask" THEN "executeGenerationTask"
    ELSE "synthesizeResults"

\* executeToolBasedTask of nodeUtils: every failure becomes a result.
executeToolBasedTask(subtask, prompt, key, reply) ==
    IF subtask = "null" THEN WorkerResult(FALSE, EmptyText, Str("No subtask provided"))
    ELSE IF ~key THEN WorkerResult(FALSE, EmptyText, Str("No API key found"))
    ELSE CASE reply = Throws ->
                WorkerResult(FALSE, EmptyText, << "Error executing task: ", "Error" >>)
           [] reply = "tools" ->
                WorkerResult(TRUE, << "LLM Response: ", prompt, "Tool Execution Results:" >>,
                             Undefined)
           [] reply = "empty" -> WorkerResult(TRUE, EmptyText, Undefined)
           [] OTHER -> WorkerResult(TRUE, Str(prompt), Undefined)

OneResult(id, r) == [k \in {id} |-> r]

AnalysisUpdate(s, key, reply) ==
    IF s.currentSubtask = "null"
    THEN [NoUpdate EXCEPT !.error = Str("No current subtask to execute"), !.nextStep = END]
    ELSE LET result == executeToolBasedTask(s.currentSubtask, "ANALYSIS_PROMPT", key, reply)
             needsGeneration == s.requiresGeneration \/ HasGenerationKeyword(s.query)
         IN IF needsGeneration
            THEN [NoUpdate EXCEPT !.results = OneResult(s.currentSubtask, result),
                                  !.nextStep = "executeGenerationTask",
                                  !.currentSubtask = createSubtask("generation")]
            ELSE [NoUpdate EXCEPT !.results = OneResult(s.currentSubtask, result),
                                  !.nextStep = END]

\* executeAnalysisTask of the module that binds the tools to the model: a
\* failure sets error and nextStep END instead of recording a result.
BoundToolsAnalysisUpdate(s, key, reply) ==
    IF s.currentSubtask = "null"
    THEN [NoUpdate EXCEPT !.error = Str("No current subtask to execute"), !.nextStep = END]
    ELSE IF ~key
    THEN [NoUpdate EXCEPT !.error = Str("No API key found"), !.nextStep = END]
    ELSE IF reply = Throws
    THEN [NoUpdate EXCEPT !.error = << "Error in analysis: ", "Error" >>, !.nextStep = END]
    ELSE LET result == WorkerResultWithTools(TRUE,
                          CASE reply = "tools" -> << "Analysis Response: ", "Tools Used:" >>
                            [] reply = "empty" -> EmptyText
                            [] OTHER -> Str("ANALYSIS_PROMPT"),
                          Undefined,
                          IF reply = "tools" THEN ToolCallNames(reply) ELSE Undefined)
             needsGeneration == s.requiresGeneration \/ HasGenerationKeyword(s.query)
         IN IF needsGeneration
            THEN [NoUpdate EXCEPT !.results = OneResult(s.currentSubtask, result),
                                  !.nextStep = "executeGenerationTask",
                                  !.currentSubtask = createSubtask("generation")]
            ELSE [NoUpdate EXCEPT !.results = OneResult(s.currentSubtask, result),
                                  !.nextStep = END]

GenerationUpdate(s, key, reply) ==
    IF s.currentSubtask = "null"
    THEN [NoUpdate EXCEPT !.error = Str("No current subtask to execute"),
                          !.nextStep = "synthesizeResults"]
    ELSE [NoUpdate EXCEPT
            !.results = OneResult(s.currentSubtask,
                            executeToolBasedTask(s.currentSubtask, "GENERATION_PROMPT", key, reply)),
            !.nextStep = "executeTestTask"]

\* executeGenerationTask of the module that binds the tools to the model
\* (bindTools): the tool calls of the answer are described in the result,
\* not executed, and a failure sets error instead of recording a result.
BoundToolsGenerationUpdate(s, key, reply) ==
    IF s.currentSubtask = "null"
    THEN [NoUpdate EXCEPT !.error = Str("No current subtask to execute"),
                          !.nextStep = "synthesizeResults"]
    ELSE IF ~key
    THEN [NoUpdate EXCEPT !.error = Str("No API key found"),
                          !.nextStep = "synthesizeResults"]
    ELSE IF reply = Throws
    THEN [NoUpdate EXCEPT !.error = << "Error in generation: ", "Error" >>,
                          !.nextStep = "synthesizeResults"]
    ELSE [NoUpdate EXCEPT
            !.results = OneResult(s.currentSubtask,
                WorkerResultWithTools(TRUE,
                    CASE reply = "tools" -> << "Generation Response: ", "Tools Used:" >>
                      [] reply = "empty" -> EmptyText
                      [] OTHER -> Str("GENERATION_PROMPT"),
                    Undefined,
                    IF reply = "tools" THEN ToolCallNames(reply) ELSE Undefined)),
            !.nextStep = "executeTestTask"]

TestUpdate(s, key, reply) ==
    IF s.currentSubtask = "null"
    THEN [NoUpdate EXCEPT !.error = Str("No current subtask to execute"),
                          !.nextStep = "synthesizeResults"]
    ELSE [NoUpdate EXCEPT
            !.results = OneResult(s.currentSubtask,
                            executeToolBasedTask(s.currentSubtask, "TEST_PROMPT", key, reply)),
            !.nextStep = "synthesizeResults"]

Section(heading, result) == << heading, "\n\n" >> \o result \o << "\n" >>
Headings == {"## Analysis Results", "## Generation Results", "## Testing Results"}
\* text.replace(/^## .*?\n\n/, '')
StripHeading(t) ==
    IF Len(t) >= 2 /\ t[1] \in Headings /\ t[2] = "\n\n" THEN SubSeq(t, 3, Len(t)) ELSE t

\* A faulty test that takes every recorded result for a successful one.
HasSuccess_Any(results, id) == id \in DOMAIN results

HasSuccess(results, id) == id \in DOMAIN results /\ results[id].success

SynthesisSections(results) ==
    (IF HasSuccess(results, "analysis")
     THEN << Section("## Analysis Results", results["analysis"].result) >> ELSE << >>)
    \o (IF HasSuccess(results, "generation")
        THEN << Section("## Generation Results", results["generation"].result) >> ELSE << >>)
    \o (IF HasSuccess(results, "test")
        THEN << Section("## Testing Results", results["test"].result) >> ELSE << >>)

SynthesisUpdate(s, key, reply) ==
    IF ~key
    THEN [NoUpdate EXCEPT !.error = Str("No API key found"),
                          !.finalResult = Str("Could not synthesize results: API key missing"),
                          !.nextStep = END]
    ELSE LET allResults == SynthesisSections(s.results) IN
         IF allResults = << >>
         THEN [NoUpdate EXCEPT !.finalResult = Str("No results available to synthesize."),
                               !.nextStep = END]
         ELSE IF Len(allResults) = 1
         THEN [NoUpdate EXCEPT !.finalResult = StripHeading(allResults[1]), !.nextStep = END]
         ELSE IF reply = Throws
         THEN [NoUpdate EXCEPT
                 !.error = << "Error synthesizing results: ", "Error" >>,
                 !.finalResult = << "Failed to synthesize results due to error: ", "Error" >>,
                 !.nextStep = END]
         ELSE IF reply = ""
         THEN [NoUpdate EXCEPT
                 !.error = << "Error synthesizing results: ", "Error: Empty response from LLM API" >>,
                 !.finalResult = << "Failed to synthesize results due to error: ",
                                    "Error: Empty response from LLM API" >>,
                 !.nextStep = END]
         ELSE [NoUpdate EXCEPT !.finalResult = Str("synthesis text"), !.nextStep = END]

\* Whether SynthesisUpdate awaits the model.
SynthesisCallsModel(s, key) == key /\ Len(SynthesisSections(s.results)) >= 2

\* The successors createAgentGraph declares for each node.
AgentGraphEdges(n) ==
    CASE n = "planExecution" -> {"executeAnalysisTask", "executeGenerationTask", END}
      [] n = "executeAnalysisTask" -> {"executeGenerationTask", "synthesizeResults"}
      [] n = "executeGenerationTask" -> {"executeTestTask"}
      [] n = "executeTestTask" -> {"synthesizeResults"}
      [] n = "synthesizeResults" -> {END}
      [] OTHER -> {}

\* A graph whose Generation node is wired straight to Synthesize.
RouteAfter_SkipTest(n, s) ==
    CASE n = "planExecution" -> routeFromOrchestrator(s)
      [] n = "executeAnalysisTask" -> routeFromAnalysis(s)
      [] n = "executeGenerationTask" -> "synthesizeResults"
      [] n = "executeTestTask" -> "synthesizeResults"
      [] OTHER -> END
\* The edges of createAgentGraph.
RouteAfter(n, s) ==
    CASE n = "planExecution" -> routeFromOrchestrator(s)
      [] n = "executeAnalysisTask" -> routeFromAnalysis(s)
      [] n = "executeGenerationTask" -> "executeTestTask"
      [] n = "executeTestTask" -> "synthesizeResults"
      [] OTHER -> END

\* The success flag of the result a node's update records, if it records one.
Successes(u) ==
    IF DOMAIN u.results = {} THEN << >>
    ELSE << u.results[CHOOSE id \in DOMAIN u.results : TRUE].success >>

\* One super-step of the graph: the node's update goes through the reducers,
\* then the node's outgoing edge picks the next node.
GraphStep(s, n, u) ==
    LET s1 == ApplyUpdate(s, u) IN
    [s1 EXCEPT !.node = RouteAfter(n, s1), !.trace = Append(@, n),
               !.outcomes = @ \o Successes(u)]


\* The state the dependency-scheduled graph is invoked with.
NoSubtask == [id |-> "null", type |-> "null", dependsOn |-> {}]
InitialGraph(q) ==
    [node |-> "planExecution", query |-> q, subtasks |-> << >>,
     currentSubtask |-> NoSubtask, results |-> NoResults, error |-> Null,
     finalResult |-> Undefined, nextStep |-> "planExecution", trace |-> << >>]
NoGraph == [InitialGraph(NoQuery) EXCEPT !.node = "none", !.nextStep = "none"]


\* ------------------------------------------------------- Agent.execute
NoCall == [object |-> "none", query |-> NoQuery]

\* A guard that lets every call in.
GuardRejects_Never(isExecuting) == FALSE
\* The guard at the top of execute.
GuardRejects(isExecuting) == isExecuting

\* An execute without its finally block: only a normal return clears the flag.
FlagAfter_NoFinally(path) == path = "throw"
\* The flag once execute has left its try block on the given path
\* ("return" or "throw"): the finally block clears it on both.
FlagAfter(path) == FALSE

\* A mapping without the fallback text.
GraphResult_NoFallback(s) ==
    IF Truthy(s.error) THEN Failure(s.error) ELSE Success(s.finalResult)
\* The value execute builds from the final graph state.
GraphResult(s) ==
    IF Truthy(s.error) THEN Failure(s.error)
    ELSE Success(IF Truthy(s.finalResult) THEN s.finalResult
                 ELSE Str("Task completed but no results were generated"))

\* The value execute's catch block builds.
CaughtResult(aboutWorkspaceFolder) ==
    IF aboutWorkspaceFolder THEN Failure(NoWorkspaceAccess)
    ELSE Failure(<< "Error executing task: ", "Error" >>)

\* The part of execute that runs once the guard has let the call in, up to
\* the first await: "" when the graph is to be invoked, else the error.
EntryError(q, folderOpen) ==
    IF ~folderOpen THEN NoWorkspaceFolder
    ELSE IF IsEmptyQuery(q) THEN EmptyQueryError
    ELSE EmptyText

Idle(c) == pc[c] = "idle"

ReturnFrom(c, obj, q, v) ==
    /\ lastReturn' = Returned(c, obj, q, v)
    /\ pc' = [pc EXCEPT ![c] = "idle"]
    /\ call' = [call EXCEPT ![c] = NoCall]

\* handleFileChangeCommand up to its first await.
FileChangeCommand(c, q) ==
    /\ UNCHANGED << apiKey, entry, agentIsExecuting, executorIsExecuting, run, orch >>
    /\ IF q.path \notin pendingFileChanges
       THEN /\ ReturnFrom(c, "agent", q,
                    Failure(<< "No pending changes found for file: ", q.path >>))
            /\ UNCHANGED pendingFileChanges
       ELSE IF q.prefix = AcceptPrefix
       THEN /\ pc' = [pc EXCEPT ![c] = "applying"]
            /\ call' = [call EXCEPT ![c] = [object |-> "agent", query |-> q]]
            /\ lastReturn' = NoReturn
            /\ UNCHANGED pendingFileChanges
       ELSE /\ pendingFileChanges' = pendingFileChanges \ {q.path}
            /\ ReturnFrom(c, "agent", q,
                    Success(<< "Changes were successfully ", "rejected for ", q.path >>))

AgentExecute(c, q, folderOpen) ==
    /\ entry = "agent"
    /\ UNCHANGED << loopVars, depVars, wsVars >>
    /\ Idle(c)
    /\ IF IsFileChangeCommand(q) THEN FileChangeCommand(c, q)
       ELSE IF GuardRejects(agentIsExecuting)
       THEN /\ ReturnFrom(c, "agent", q, Failure(AlreadyExecuting))
            /\ UNCHANGED << apiKey, entry, agentIsExecuting, executorIsExecuting, run, orch,
                            pendingFileChanges >>
       ELSE IF EntryError(q, folderOpen) # EmptyText
       THEN /\ ReturnFrom(c, "agent", q, Failure(EntryError(q, folderOpen)))
            /\ agentIsExecuting' = FlagAfter("return")
            /\ UNCHANGED << apiKey, entry, executorIsExecuting, run, orch, pendingFileChanges >>
       ELSE /\ agentIsExecuting' = TRUE
            /\ pc' = [pc EXCEPT ![c] = "graph"]
            /\ call' = [call EXCEPT ![c] = [object |-> "agent", query |-> q]]
            /\ run' = [run EXCEPT ![c] = InitialState(q)]
            /\ lastReturn' = NoReturn
            /\ UNCHANGED << apiKey, entry, executorIsExecuting, orch, pendingFileChanges >>

\* applyPendingChanges after its await of writeFile.
AgentApplyDone(c, outcome) ==
    /\ pc[c] = "applying"
    /\ LET q == call[c].query IN
       /\ pendingFileChanges' =
            IF outcome = Throws THEN pendingFileChanges ELSE pendingFileChanges \ {q.path}
       /\ ReturnFrom(c, "agent", q,
            CASE outcome = Throws ->
                    Failure(<< "Error handling file change command: ", "Error" >>)
              [] outcome = "written" ->
                    Success(<< "Changes were successfully ", "applied to ", q.path >>)
              [] OTHER -> Failure(<< "Could not ", "apply", " changes for ", q.path >>))
    /\ UNCHANGED << apiKey, entry, agentIsExecuting, executorIsExecuting, run, orch, loopVars,
                    depVars, wsVars >>

InGraph(c, n) == pc[c] = "graph" /\ run[c].node = n

NodeFrame ==
    UNCHANGED << apiKey, entry, agentIsExecuting, executorIsExecuting, pc, call, orch, loopVars,
                 depVars, wsVars >>

PlanExecution(c, reply) ==
    /\ InGraph(c, "planExecution")
    /\ run' = [run EXCEPT ![c] =
                 [GraphStep(@, "planExecution", ClassifyUpdate(@, apiKey, reply))
                    EXCEPT !.token = Classified(run[c], apiKey, reply)]]
    /\ lastReturn' = NoReturn
    /\ UNCHANGED pendingFileChanges
    /\ NodeFrame

\* The files an editAndShowDiff tool call of the reply leaves pending.
ToolEdits(reply, edits) == IF apiKey /\ reply = "tools" THEN edits ELSE {}

ExecuteAnalysisTask(c, reply, edits) ==
    /\ InGraph(c, "executeAnalysisTask")
    /\ run' = [run EXCEPT ![c] =
                 GraphStep(@, "executeAnalysisTask", AnalysisUpdate(@, apiKey, reply))]
    /\ pendingFileChanges' = pendingFileChanges \cup ToolEdits(reply, edits)
    /\ lastReturn' = NoReturn
    /\ NodeFrame

\* The other executeAnalysisTask the nodes directory holds.
ExecuteAnalysisTaskBoundTools(c, reply) ==
    /\ InGraph(c, "executeAnalysisTask")
    /\ run' = [run EXCEPT ![c] =
                 GraphStep(@, "executeAnalysisTask",
                           BoundToolsAnalysisUpdate(@, apiKey, reply))]
    /\ lastReturn' = NoReturn
    /\ UNCHANGED pendingFileChanges
    /\ NodeFrame

ExecuteGenerationTask(c, reply, edits) ==
    /\ InGraph(c, "executeGenerationTask")
    /\ run' = [run EXCEPT ![c] =
                 GraphStep(@, "executeGenerationTask", GenerationUpdate(@, apiKey, reply))]
    /\ pendingFileChanges' = pendingFileChanges \cup ToolEdits(reply, edits)
    /\ lastReturn' = NoReturn
    /\ NodeFrame

\* The other executeGenerationTask the nodes directory holds.
ExecuteGenerationTaskBoundTools(c, reply) ==
    /\ InGraph(c, "executeGenerationTask")
    /\ run' = [run EXCEPT ![c] =
                 GraphStep(@, "executeGenerationTask",
                           BoundToolsGenerationUpdate(@, apiKey, reply))]
    /\ lastReturn' = NoReturn
    /\ UNCHANGED pendingFileChanges
    /\ NodeFrame

ExecuteTestTask(c, reply, edits) ==
    /\ InGraph(c, "executeTestTask")
    /\ run' = [run EXCEPT ![c] =
                 GraphStep(@, "executeTestTask", TestUpdate(@, apiKey, reply))]
    /\ pendingFileChanges' = pendingFileChanges \cup ToolEdits(reply, edits)
    /\ lastReturn' = NoReturn
    /\ NodeFrame

SynthesizeResults(c, reply) ==
    /\ InGraph(c, "synthesizeResults")
    /\ run' = [run EXCEPT ![c] =
                 GraphStep(@, "synthesizeResults", SynthesisUpdate(@, apiKey, reply))]
    /\ lastReturn' = NoReturn
    /\ UNCHANGED pendingFileChanges
    /\ NodeFrame

\* graph.invoke resolves: execute maps the final state and returns.
AgentGraphReturns(c) ==
    /\ InGraph(c, END)
    /\ ReturnFrom(c, "agent", call[c].query, GraphResult(run[c]))
    /\ agentIsExecuting' = FlagAfter("return")
    /\ run' = [run EXCEPT ![c] = NoRun]
    /\ UNCHANGED << apiKey, entry, executorIsExecuting, orch, pendingFileChanges, loopVars,
                    depVars, wsVars >>

\* graph.invoke rejects (the graph library throws): execute's catch block.
AgentGraphThrows(c, aboutWorkspaceFolder) ==
    /\ pc[c] = "graph"
    /\ run[c].node # END
    /\ ReturnFrom(c, "agent", call[c].query, CaughtResult(aboutWorkspaceFolder))
    /\ agentIsExecuting' = FlagAfter("throw")
    /\ run' = [run EXCEPT ![c] = NoRun]
    /\ UNCHANGED << apiKey, entry, executorIsExecuting, orch, pendingFileChanges, loopVars,
                    depVars, wsVars >>


\* ------------------------------------- Orchestrator / AgentExecutor
\* The planner numbers its subtasks; dependsOn names the first.
TaskIds == << "task1", "task2", "task3", "task4" >>
OrchIds == {"task1"}
\* A type with a worker, and one without.
OrchTypes == {"analysis", "test"}
\* A dependsOn that is a non-empty string instead of an array: it has a
\* length but no every().
NotAnArray == "<not an array>"
OrchShapes == [type : OrchTypes, dependsOn : (SUBSET OrchIds) \cup {{NotAnArray}}]
\* The plans the planner's JSON can hold, as planExecution initialises them.
OrchPlans ==
    UNION { { [i \in 1 .. n |->
                [id |-> TaskIds[i], type |-> f[i].type, dependsOn |-> f[i].dependsOn,
                 completed |-> FALSE, result |-> Undefined]] :
              f \in [1 .. n -> OrchShapes] } :
            n \in 0 .. MaxOrchSubtasks }
\* What the planning model call can produce besides a plan.
PlanFailures == {Throws, "no json", "no subTasks"}
\* What a worker can return (AgentWorker.execute); the Orchestrator reads
\* success and result, and the worker's toolsUsed is not followed here.
WorkerReplies == {"text", "empty", "exceeded", "failed"}

WorkerResponse(reply) ==
    CASE reply = "text" -> WorkerResult(TRUE, Str("worker text"), Undefined)
      [] reply = "empty" -> WorkerResult(TRUE, EmptyText, Undefined)
      [] reply = "exceeded" ->
            WorkerResult(FALSE,
                Str("Maximum number of tool calls exceeded. Task could not be completed."),
                Str("Max tool calls exceeded"))
      [] OTHER -> WorkerResult(FALSE, EmptyText, << "Error in worker ", "Error" >>)

NoOrch == [phase |-> "none", subTasks |-> << >>, idx |-> 0]

\* plan.subTasks.find(t => t.id === depId)?.completed, for every depId.
AllDependenciesCompleted(subTasks, st) ==
    \A depId \in st.dependsOn :
        \E i \in 1 .. Len(subTasks) :
            /\ subTasks[i].id = depId
            /\ \A j \in 1 .. (i - 1) : subTasks[j].id # depId
            /\ subTasks[i].completed

\* The response of the worker the subtask's type selects.
SubtaskResponse(st, reply) ==
    IF st.type \in {"analysis", "generation"} THEN WorkerResponse(reply)
    ELSE WorkerResult(FALSE, EmptyText, << "Unknown subtask type: ", st.type >>)

\* Orchestrator.synthesizeResults.
OrchSynthesis(subTasks, key, reply) ==
    IF ~key THEN Str("Could not synthesize results: No API key found")
    ELSE IF \A i \in 1 .. Len(subTasks) :
                ~(subTasks[i].completed /\ Truthy(subTasks[i].result))
    THEN Str("No completed subtasks to synthesize.")
    ELSE IF reply \in {Throws, ""}
    THEN << "Failed to synthesize results: ", "Error" >>
    ELSE Str("synthesis text")

\* The value AgentExecutor.execute builds from the Orchestrator's response.
OrchestratorResult(response) ==
    IF ~response.success
    THEN Failure(IF Truthy(response.error) THEN response.error
                 ELSE Str("Task execution failed"))
    ELSE Success(IF Truthy(response.results) THEN response.results
                 ELSE Str("Task completed successfully, but no results were generated"))

OrchFailure(error) == [success |-> FALSE, results |-> Undefined, error |-> error]
OrchSuccess(results) == [success |-> TRUE, results |-> results, error |-> Undefined]

ExecutorFrame ==
    UNCHANGED << apiKey, entry, agentIsExecuting, run, pendingFileChanges, loopVars,
                 depVars, wsVars >>

ExecutorReturns(c, response) ==
    /\ ReturnFrom(c, "executor", call[c].query, OrchestratorResult(response))
    /\ executorIsExecuting' = FlagAfter("return")
    /\ orch' = [orch EXCEPT ![c] = NoOrch]

ExecutorExecute(c, q, folderOpen) ==
    /\ entry = "executor"
    /\ Idle(c)
    /\ ExecutorFrame
    /\ IF GuardRejects(executorIsExecuting)
       THEN /\ ReturnFrom(c, "executor", q, Failure(AlreadyExecuting))
            /\ UNCHANGED << executorIsExecuting, orch >>
       ELSE IF ~folderOpen
       THEN /\ ReturnFrom(c, "executor", q, Failure(NoWorkspaceFolder))
            /\ executorIsExecuting' = FlagAfter("return")
            /\ UNCHANGED orch
       ELSE /\ executorIsExecuting' = TRUE
            /\ pc' = [pc EXCEPT ![c] = "orchestrator"]
            /\ call' = [call EXCEPT ![c] = [object |-> "executor", query |-> q]]
            /\ orch' = [orch EXCEPT ![c] = [phase |-> "plan", subTasks |-> << >>, idx |-> 0]]
            /\ lastReturn' = NoReturn

InOrch(c, phase) == pc[c] = "orchestrator" /\ orch[c].phase = phase

\* Orchestrator.planExecution fails, or returns no subtask.
OrchPlanFails(c, reply) ==
    /\ InOrch(c, "plan")
    /\ ExecutorFrame
    /\ ExecutorReturns(c,
          OrchFailure(IF ~apiKey THEN Str("No API key found")
                      ELSE IF reply \in PlanFailures
                      THEN << "Error planning execution: ", "Error" >>
                      ELSE Str("Failed to create execution plan")))

\* Orchestrator.planExecution returns a plan of at least one subtask.
OrchPlan(c) ==
    /\ InOrch(c, "plan")
    /\ apiKey
    /\ \E plan \in OrchPlans :
          /\ Len(plan) > 0
          /\ orch' = [orch EXCEPT ![c] = [phase |-> "loop", subTasks |-> plan, idx |-> 1]]
    /\ lastReturn' = NoReturn
    /\ UNCHANGED << pc, call, executorIsExecuting >>
    /\ ExecutorFrame

\* The loop without the dependency check.
OrchSubtask_NoSkip(c, reply) ==
    /\ InOrch(c, "loop")
    /\ orch[c].idx <= Len(orch[c].subTasks)
    /\ ExecutorFrame
    /\ LET o == orch[c]
           st == o.subTasks[o.idx]
           response == SubtaskResponse(st, reply)
       IN /\ lastReturn' = NoReturn
          /\ UNCHANGED << pc, call, executorIsExecuting >>
          /\ orch' = [orch EXCEPT
                        ![c].idx = @ + 1,
                        ![c].subTasks[o.idx].completed = response.success,
                        ![c].subTasks[o.idx].result = response.result]

\* One iteration of the loop over plan.subTasks.
OrchSubtask(c, reply) ==
    /\ InOrch(c, "loop")
    /\ orch[c].idx <= Len(orch[c].subTasks)
    /\ ExecutorFrame
    /\ LET o == orch[c]
           st == o.subTasks[o.idx]
       IN IF NotAnArray \in st.dependsOn
          THEN ExecutorReturns(c, OrchFailure(<< "Error in orchestration: ", "TypeError" >>))
          ELSE /\ lastReturn' = NoReturn
               /\ UNCHANGED << pc, call, executorIsExecuting >>
               /\ IF ~AllDependenciesCompleted(o.subTasks, st)
                  THEN orch' = [orch EXCEPT ![c].idx = @ + 1]
                  ELSE LET response == SubtaskResponse(st, reply) IN
                       orch' = [orch EXCEPT
                                  ![c].idx = @ + 1,
                                  ![c].subTasks[o.idx].completed = response.success,
                                  ![c].subTasks[o.idx].result = response.result]

\* synthesizeResults, then execute returns its response.
OrchSynthesize(c, reply) ==
    /\ InOrch(c, "loop")
    /\ orch[c].idx > Len(orch[c].subTasks)
    /\ ExecutorFrame
    /\ ExecutorReturns(c, OrchSuccess(OrchSynthesis(orch[c].subTasks, apiKey, reply)))


\* ------------------------------------------------- WorkspaceManager
\* The files the calls name, and what a file can hold; a workspace folder
\* is open, so readFile reads whatever exists.
WorkspacePaths == {"a.ts", "b.ts"}
FileContents == {EmptyText, Str("old text"), Str("new text")}
\* fs.existsSync is false for the path.
NoFile == << "<no file>" >>
Exists(files, filePath) == files[filePath] # NoFile

FileChange(filePath, originalContent, newContent, operation) ==
    [filePath |-> filePath, originalContent |-> originalContent,
     newContent |-> newContent, operation |-> operation]

\* What a method of the WorkspaceManager leaves behind and returns; io is
\* what the file system call of the method comes to.
Outcome(files, history, returned) ==
    [files |-> files, changeHistory |-> history, returned |-> returned]

writeFile(files, history, filePath, content, requireConfirmation, confirmed, io) ==
    LET operation == IF Exists(files, filePath) THEN "modify" ELSE "create"
        originalContent == IF operation = "modify" THEN files[filePath] ELSE Undefined
    IN IF requireConfirmation /\ ~confirmed THEN Outcome(files, history, "false")
       ELSE IF io = Throws THEN Outcome(files, history, Throws)
       ELSE Outcome([files EXCEPT ![filePath] = content],
                    Append(history, FileChange(filePath, originalContent, content, operation)),
                    "true")

deleteFile(files, history, filePath, requireConfirmation, confirmed, io) ==
    IF ~Exists(files, filePath) THEN Outcome(files, history, "false")
    ELSE IF requireConfirmation /\ ~confirmed THEN Outcome(files, history, "false")
    ELSE IF io = Throws THEN Outcome(files, history, Throws)
    ELSE Outcome([files EXCEPT ![filePath] = NoFile],
                 Append(history, FileChange(filePath, files[filePath], EmptyText, "delete")),
                 "true")

undoLastChange(files, history, io) ==
    IF history = << >> THEN Outcome(files, history, "false")
    ELSE LET lastChange == history[Len(history)]
             popped == SubSeq(history, 1, Len(history) - 1)
             Returns(o) == [o EXCEPT !.returned = IF @ = Throws THEN Throws ELSE "true"]
         IN IF lastChange.operation = "delete" /\ Truthy(lastChange.originalContent)
            THEN Returns(writeFile(files, popped, lastChange.filePath,
                                   lastChange.originalContent, FALSE, FALSE, io))
            ELSE IF lastChange.operation = "create"
            THEN Returns(deleteFile(files, popped, lastChange.filePath, FALSE, FALSE, io))
            ELSE IF lastChange.operation = "modify" /\ Truthy(lastChange.originalContent)
            THEN Returns(writeFile(files, popped, lastChange.filePath,
                                   lastChange.originalContent, FALSE, FALSE, io))
            ELSE Outcome(files, popped, "false")

\* No call has been made.
NoCalls ==
    [original |-> << >>, changes |-> 0, undos |-> 0, mixed |-> FALSE, failed |-> FALSE,
     method |-> "none", returned |-> "none"]
WsParked ==
    /\ fsFiles = << >>
    /\ changeHistory = << >>
    /\ undoLog = NoCalls

\* ------------------------------------ AgentWorker: the tool-call loop
\* The registry of ToolsImplementation.
RegisteredTools == {"readFile", "writeFile", "listFiles", "searchCode", "runCommand"}
\* The names the model asks for: a registered tool, and one that is not.
RequestedNames == {"writeFile", "deleteFile"}
\* function.arguments of a tool call: the text of a JSON object, or text
\* that is not JSON.
ArgumentTexts == {"object", "malformed"}
\* tc.id: the API numbers the calls of a response.
CallIds == << "call_1", "call_2", "call_3", "call_4" >>
\* message.tool_calls: the names are free; the arguments that are not JSON,
\* if any, are those of the last call (the parse of the list stops at the
\* first such call wherever it stands).
RawCallLists ==
    UNION { { [j \in 1 .. n |->
                [id |-> CallIds[j], name |-> f[j],
                 arguments |-> IF j = n THEN a ELSE "object"]] :
              f \in [1 .. n -> RequestedNames], a \in ArgumentTexts } :
            n \in 1 .. MaxRoundCalls }
\* data.choices[0].message: text only, or tool calls.
LLMMessages ==
    { [content |-> t, tool_calls |-> << >>] : t \in {Str("answer"), EmptyText} }
    \cup { [content |-> EmptyText, tool_calls |-> calls] : calls \in RawCallLists }
ApiError == [content |-> Str("<api error>"), tool_calls |-> << >>]
NoMessage == [content |-> Undefined, tool_calls |-> << >>]
\* What a registered tool's execute can do.
ToolOutcomes == {"ok", "throws"}
\* What it can do when the user is asked first and may say no.
ConfirmOutcomes == {"ok", "declined"}
\* The tools that ask the user before they act.
ConfirmedTools == {"writeFile", "runCommand"}

\* A WorkerMessage; toolName and toolCallId are "" when not set.
Message(role, content, toolName) ==
    [role |-> role, content |-> content, toolName |-> toolName, toolCallId |-> ""]
\* A tool message without the id of its call.
Correlated_NoId(m, toolCall) == m
\* toolCallId: toolCall.id, as every tool message of the loop is pushed.
Correlated(m, toolCall) == [m EXCEPT !.toolCallId = toolCall.id]
LoopResponse(ok, result, error, used) ==
    [success |-> ok, result |-> result, error |-> error, toolsUsed |-> used]
NoResponse == LoopResponse(FALSE, Undefined, Undefined, << >>)

\* toolsProvider.getTool(name) finds a tool.
getTool_Any(name) == TRUE
getTool(name) == name \in RegisteredTools

\* JSON.parse(tc.function.arguments) throws for some call of the response.
ParseThrows(msg) ==
    \E j \in 1 .. Len(msg.tool_calls) : msg.tool_calls[j].arguments = "malformed"

NotFoundMessage(name) ==
    Message("tool", << "{error:", "Tool ", name, " not found", "}" >>, name)
\* The error of the ToolResult a tool returns when the user says no.
DeclineError(name) ==
    IF name = "writeFile" THEN "User declined the file write operation"
    ELSE "User declined to run the command"
\* A faulty tool layer that throws when the user says no, so that the loop's
\* catch block reports the decline as an execution error.
ToolMessage_DeclineThrown(name, outcome) ==
    IF outcome \in {"throws", "declined"}
    THEN Message("tool",
            << "{error:", "Error executing tool ", name, ": ",
               IF outcome = "declined" THEN DeclineError(name) ELSE "Error", "}" >>, name)
    ELSE Message("tool", << "{success:true}" >>, name)

ToolMessage(name, outcome) ==
    IF outcome = "throws"
    THEN Message("tool", << "{error:", "Error executing tool ", name, ": ", "Error", "}" >>, name)
    ELSE IF outcome = "declined"
    THEN Message("tool", << "{success:false,error:", DeclineError(name), "}" >>, name)
    ELSE Message("tool", << "{success:true}" >>, name)

\* The loop's condition, with a faulty variant that runs one more round.
LoopContinues_OneMore(n, cap) == n <= cap
LoopContinues(n, cap) == n < cap

ExceededResponse(used) ==
    LoopResponse(FALSE,
        Str("Maximum number of tool calls exceeded. Task could not be completed."),
        Str("Max tool calls exceeded"), used)
\* The catch block of AgentWorker.execute.
CaughtResponse(error) ==
    LoopResponse(FALSE, EmptyText, << "Error in worker ", error >>, << >>)

LoopFrame == UNCHANGED << execVars, depVars, wsVars, maxToolCalls >>

WorkerReturns(response) ==
    /\ lpc' = "done"
    /\ workerReturn' = response

\* The head of the for loop with counter n: the next model call, or the
\* return after the loop.
LoopHead(n, used) ==
    /\ round' = n
    /\ IF LoopContinues(n, maxToolCalls)
       THEN lpc' = "llm" /\ UNCHANGED workerReturn
       ELSE WorkerReturns(ExceededResponse(used))

\* AgentWorker.execute up to the first await of callLLM.
WorkerExecute(hasContext) ==
    /\ lpc = "idle"
    /\ messages' = << Message("system", Str("<system prompt>"), "") >>
                   \o (IF hasContext THEN << Message("user", Str("<context>"), "") >> ELSE << >>)
                   \o << Message("user", Str("<task>"), "") >>
    /\ toolsUsed' = << >>
    /\ LoopHead(0, << >>)
    /\ UNCHANGED << llmMessage, callIndex, modelCalls >>
    /\ LoopFrame

\* callLLM returns or throws, and the loop runs on to its next await.
CallLLM(msg) ==
    /\ lpc = "llm"
    /\ modelCalls' = modelCalls + 1
    /\ LoopFrame
    /\ IF msg = ApiError
       THEN /\ WorkerReturns(CaughtResponse("Error: API error"))
            /\ UNCHANGED << round, messages, toolsUsed, llmMessage, callIndex >>
       ELSE /\ llmMessage' = msg
            /\ IF ParseThrows(msg)
               THEN /\ WorkerReturns(CaughtResponse("SyntaxError"))
                    /\ UNCHANGED << round, messages, toolsUsed, callIndex >>
               ELSE /\ messages' = Append(messages, Message("assistant", msg.content, ""))
                    /\ UNCHANGED << round, toolsUsed >>
                    /\ IF msg.tool_calls = << >>
                       THEN /\ WorkerReturns(LoopResponse(TRUE, msg.content, Undefined, toolsUsed))
                            /\ UNCHANGED callIndex
                       ELSE /\ lpc' = "tools"
                            /\ callIndex' = 1
                            /\ UNCHANGED workerReturn

\* One iteration of the loop over llmResponse.toolCalls.
ExecuteToolCall(outcome) ==
    /\ lpc = "tools"
    /\ LoopFrame
    /\ UNCHANGED << llmMessage, modelCalls >>
    /\ LET toolName == llmMessage.tool_calls[callIndex].name
           used == IF getTool(toolName) THEN Append(toolsUsed, toolName) ELSE toolsUsed
       IN /\ outcome = "declined" => toolName \in ConfirmedTools
          /\ toolsUsed' = used
          /\ messages' = Append(messages,
                            Correlated(IF getTool(toolName) THEN ToolMessage(toolName, outcome)
                                       ELSE NotFoundMessage(toolName),
                                       llmMessage.tool_calls[callIndex]))
          /\ IF callIndex < Len(llmMessage.tool_calls)
             THEN /\ callIndex' = callIndex + 1
                  /\ UNCHANGED << lpc, round, workerReturn >>
             ELSE /\ callIndex' = 0
                  /\ LoopHead(round + 1, used)

LoopParked ==
    /\ lpc = "none"
    /\ maxToolCalls = 0
    /\ round = 0
    /\ messages = << >>
    /\ toolsUsed = << >>
    /\ llmMessage = NoMessage
    /\ callIndex = 0
    /\ modelCalls = 0
    /\ workerReturn = NoResponse

ExecParked ==
    /\ entry = "none"
    /\ agentIsExecuting = FALSE
    /\ executorIsExecuting = FALSE
    /\ pc = [c \in Calls |-> "idle"]
    /\ call = [c \in Calls |-> NoCall]
    /\ run = [c \in Calls |-> NoRun]
    /\ orch = [c \in Calls |-> NoOrch]
    /\ pendingFileChanges = {}
    /\ lastReturn = NoReturn

LoopInit ==
    /\ ExecParked
    /\ apiKey = TRUE
    /\ graph = NoGraph
    /\ WsParked
    /\ lpc = "idle"
    /\ maxToolCalls \in 1 .. MaxCap
    /\ round = 0
    /\ messages = << >>
    /\ toolsUsed = << >>
    /\ llmMessage = NoMessage
    /\ callIndex = 0
    /\ modelCalls = 0
    /\ workerReturn = NoResponse

LoopNext ==
    \/ \E hasContext \in BOOLEAN : WorkerExecute(hasContext)
    \/ \E msg \in LLMMessages \cup {ApiError} : CallLLM(msg)
    \/ \E outcome \in ToolOutcomes : ExecuteToolCall(outcome)

SpecLoop == LoopInit /\ [][LoopNext]_vars

\* The same loop with tools that ask the user before they act.
ConfirmNext ==
    \/ \E hasContext \in BOOLEAN : WorkerExecute(hasContext)
    \/ \E msg \in LLMMessages \cup {ApiError} : CallLLM(msg)
    \/ \E outcome \in ConfirmOutcomes : ExecuteToolCall(outcome)

SpecConfirm == LoopInit /\ [][ConfirmNext]_vars

\* --------------------------------------------- properties of SpecLoop
\* Index of the last assistant message (0 if there is none).
RECURSIVE LastAssistantUpTo(_, _)
LastAssistantUpTo(msgs, k) ==
    IF k = 0 \/ msgs[k].role = "assistant" THEN k ELSE LastAssistantUpTo(msgs, k - 1)
LastAssistant(msgs) == LastAssistantUpTo(msgs, Len(msgs))
\* Number of calls of the last response the loop has dealt with.
CallsProcessed ==
    IF lpc = "tools" THEN callIndex - 1 ELSE Len(llmMessage.tool_calls)
\* Every model call so far answered with tool calls, and the loop ran them.
EveryResponseRanTools == round = modelCalls

\* C4: the loop never makes more model calls than its cap N; when every
\* response of the model requested tool calls that the loop ran, the loop
\* ends after exactly N model calls with success=false and the error
\* 'Max tool calls exceeded'.
C4_ToolLoopCap ==
    /\ modelCalls <= maxToolCalls
    /\ round <= maxToolCalls
    /\ (lpc = "done" /\ EveryResponseRanTools) =>
            /\ modelCalls = maxToolCalls
            /\ workerReturn = ExceededResponse(toolsUsed)
            /\ ~workerReturn.success

\* The loop has ended at a cap of at least two with every round a tool round.
C4_Witness ==
    /\ lpc = "done"
    /\ maxToolCalls >= 2
    /\ EveryResponseRanTools
    /\ workerReturn.error = Str("Max tool calls exceeded")

\* C5: each call of a round that the loop has dealt with has its tool
\* message, in order; the message of a call naming an unregistered tool
\* carries the 'not found' error; and a round is left only when all of its
\* calls have been dealt with.
C5_ToolNotFound ==
    (llmMessage.tool_calls # << >> /\ ~ParseThrows(llmMessage)) =>
        LET base == LastAssistant(messages) IN
        /\ base > 0
        /\ Len(messages) = base + CallsProcessed
        /\ \A j \in 1 .. CallsProcessed :
              /\ messages[base + j].role = "tool"
              /\ messages[base + j].toolName = llmMessage.tool_calls[j].name
              /\ llmMessage.tool_calls[j].name \notin RegisteredTools =>
                    messages[base + j] =
                        Correlated(NotFoundMessage(llmMessage.tool_calls[j].name),
                                   llmMessage.tool_calls[j])

\* A round whose first call named an unknown tool has run its second call.
C5_Witness ==
    /\ Len(llmMessage.tool_calls) = 2
    /\ llmMessage.tool_calls[1].name = "deleteFile"
    /\ llmMessage.tool_calls[2].name = "writeFile"
    /\ CallsProcessed = 2
    /\ messages[Len(messages) - 1] =
            Correlated(NotFoundMessage("deleteFile"), llmMessage.tool_calls[1])
    /\ messages[Len(messages)] =
            Correlated(ToolMessage("writeFile", "ok"), llmMessage.tool_calls[2])

\* C6 as stated: when the last response of the model held tool calls, the
\* worker has ended only because the cap was reached or the model call
\* itself failed, and every call of that response has its tool message.
C6_AsStated ==
    (lpc = "done" /\ llmMessage.tool_calls # << >>) =>
        /\ workerReturn \in {ExceededResponse(toolsUsed), CaughtResponse("Error: API error")}
        /\ Len(messages) = LastAssistant(messages) + Len(llmMessage.tool_calls)


\* --------------------------------------- the dependency-scheduled graph
\* The ids the planner gives its subtasks, by position.
SubtaskIds == << "s1", "s2", "s3", "s4" >>
\* The ids a dependsOn can hold: the first two subtasks, and a name every
\* object inherits.
DependsOnIds == {"s1", "s2", "constructor"}
SubtaskTypes == {"analysis", "generation", "test", "review"}
SubtaskShapes ==
    [type : SubtaskTypes, dependsOn : {{}} \cup {{d} : d \in DependsOnIds}]
\* parsedJson.subTasks, taken as it is.
ParsedPlans ==
    UNION { { [j \in 1 .. n |->
                [id |-> SubtaskIds[j], type |-> f[j].type, dependsOn |-> f[j].dependsOn]] :
              f \in [1 .. n -> SubtaskShapes] } :
            n \in 0 .. MaxSubtasks }
\* What the planning call can come to: a plan, a failure, text without JSON.
PlannerOutcomes == {"plan", Throws, "no json"}
\* What a subtask's or the synthesis call's response holds.
ContentReplies == {"text", "blank", "invalid", Throws}

\* An update that sets no channel.
NoChange ==
    [setsSubtasks |-> FALSE, subtasks |-> << >>, currentSubtask |-> [NoSubtask EXCEPT !.id = "undefined"],
     results |-> NoResults, error |-> Undefined, finalResult |-> Undefined,
     nextStep |-> "undefined"]

\* The successors createAgentGraph of graph.ts declares for each node.
DeclaredSuccessors(n) ==
    CASE n = "planExecution" -> {"selectNextSubtask", END}
      [] n = "selectNextSubtask" ->
            {"executeAnalysisTask", "executeGenerationTask", "executeTestTask",
             "synthesizeResults"}
      [] n \in {"executeAnalysisTask", "executeGenerationTask", "executeTestTask"} ->
            {"selectNextSubtask"}
      [] n = "synthesizeResults" -> {END}
      [] OTHER -> {}

routeNextStep(s) == s.nextStep

\* One super-step: the reducers, then the conditional edge.
Channel(s, u) ==
    [s EXCEPT !.subtasks = IF u.setsSubtasks THEN u.subtasks ELSE @,
              !.currentSubtask = IF u.currentSubtask.id = "undefined" THEN @ ELSE u.currentSubtask,
              !.results = MergeResults(@, u.results),
              !.error = Reduce(@, u.error),
              !.finalResult = Reduce(@, u.finalResult),
              !.nextStep = ReduceName(@, u.nextStep)]
SuperStep(s, n, u) ==
    [Channel(s, u) EXCEPT !.node = routeNextStep(Channel(s, u)), !.trace = Append(@, n)]

\* state.results[id] is truthy: id is a key of results, or a property every
\* object inherits.
InheritedNames == InheritedCallable \cup InheritedThrowing
HasResult(results, id) == id \in DOMAIN results \/ id \in InheritedNames

\* A faulty test that finds every subtask eligible.
Eligible_Always(task, results) == TRUE
\* The filter of eligibleSubtasks.
Eligible(task, results) ==
    task.dependsOn = {} \/ \A depId \in task.dependsOn : HasResult(results, depId)

PendingSubtasks(s) ==
    LET NotRun(task) == ~HasResult(s.results, task.id) IN SelectSeq(s.subtasks, NotRun)
EligibleSubtasks(s) ==
    LET Ready(task) == Eligible(task, s.results) IN SelectSeq(PendingSubtasks(s), Ready)

CycleError == Str("No eligible subtasks to execute. There may be a dependency cycle.")

\* A faulty mapping without the default case.
getNodeForSubtaskType_NoDefault(type) ==
    CASE type = "analysis" -> "executeAnalysisTask"
      [] type = "generation" -> "executeGenerationTask"
      [] type = "test" -> "executeTestTask"
      [] OTHER -> type

getNodeForSubtaskType(type) ==
    CASE type = "analysis" -> "executeAnalysisTask"
      [] type = "generation" -> "executeGenerationTask"
      [] type = "test" -> "executeTestTask"
      [] OTHER -> "executeAnalysisTask"

\* A faulty planExecution that asks the model before it looks at the task
\* and the key.
planUpdate_CallFirst(s, key, outcome, plan) ==
    IF outcome = Throws
    THEN [NoChange EXCEPT !.error = << "Error planning execution: ", "Error" >>, !.nextStep = END]
    ELSE IF outcome = "no json"
    THEN [NoChange EXCEPT
            !.error = Str("Could not parse a valid JSON plan from the LLM response. Try running the query again."),
            !.nextStep = END]
    ELSE [NoChange EXCEPT !.setsSubtasks = TRUE, !.subtasks = plan,
                          !.nextStep = "selectNextSubtask"]

planUpdate(s, key, outcome, plan) ==
    IF IsEmptyQuery(s.query)
    THEN [NoChange EXCEPT !.error = Str("Task is missing or invalid"), !.nextStep = END]
    ELSE IF ~key
    THEN [NoChange EXCEPT !.error = Str("No API key found"), !.nextStep = END]
    ELSE IF outcome = Throws
    THEN [NoChange EXCEPT !.error = << "Error planning execution: ", "Error" >>, !.nextStep = END]
    ELSE IF outcome = "no json"
    THEN [NoChange EXCEPT
            !.error = Str("Could not parse a valid JSON plan from the LLM response. Try running the query again."),
            !.nextStep = END]
    ELSE [NoChange EXCEPT !.setsSubtasks = TRUE, !.subtasks = plan,
                          !.nextStep = "selectNextSubtask"]

selectUpdate(s) ==
    IF s.subtasks = << >> \/ PendingSubtasks(s) = << >>
    THEN [NoChange EXCEPT !.nextStep = "synthesizeResults"]
    ELSE IF EligibleSubtasks(s) = << >>
    THEN [NoChange EXCEPT !.error = CycleError, !.nextStep = "synthesizeResults"]
    ELSE LET selectedSubtask == EligibleSubtasks(s)[1] IN
         [NoChange EXCEPT !.currentSubtask = selectedSubtask,
                          !.nextStep = getNodeForSubtaskType(selectedSubtask.type)]

\* A faulty executeToolBasedTask that takes whatever the call gave for the
\* model's text.
subtaskResponse_Unchecked(subtask, key, reply) ==
    IF subtask = NoSubtask THEN WorkerResult(FALSE, EmptyText, Str("No subtask provided"))
    ELSE IF ~key THEN WorkerResult(FALSE, EmptyText, Str("No API key found"))
    ELSE WorkerResult(TRUE, Str("subtask text"), Undefined)

\* executeToolBasedTask of nodes.ts.
subtaskResponse(subtask, key, reply) ==
    IF subtask = NoSubtask THEN WorkerResult(FALSE, EmptyText, Str("No subtask provided"))
    ELSE IF ~key THEN WorkerResult(FALSE, EmptyText, Str("No API key found"))
    ELSE CASE reply = Throws ->
                WorkerResult(FALSE, EmptyText, << "Error executing task: ", "Error: API error" >>)
           [] reply = "invalid" ->
                WorkerResult(FALSE, EmptyText,
                    << "Error executing task: ", "Error: Invalid response from LLM API" >>)
           [] reply = "blank" -> WorkerResult(TRUE, Str("  "), Undefined)
           [] OTHER -> WorkerResult(TRUE, Str("subtask text"), Undefined)

\* A faulty executor that runs every eligible subtask at once.
executorUpdate_AllEligible(s, key, reply) ==
    [NoChange EXCEPT
        !.results = [id \in {EligibleSubtasks(s)[j].id : j \in 1 .. Len(EligibleSubtasks(s))} |->
                        subtaskResponse(s.currentSubtask, key, reply)],
        !.nextStep = "selectNextSubtask"]

\* A faulty executor that records no result.
executorUpdate_NoRecord(s, key, reply) ==
    [NoChange EXCEPT !.nextStep = "selectNextSubtask"]

executorUpdate(s, key, reply) ==
    IF s.currentSubtask = NoSubtask
    THEN [NoChange EXCEPT !.error = Str("No current subtask to execute"),
                          !.nextStep = "selectNextSubtask"]
    ELSE [NoChange EXCEPT
            !.results = OneResult(s.currentSubtask.id, subtaskResponse(s.currentSubtask, key, reply)),
            !.nextStep = "selectNextSubtask"]

CompletedTasks(results) ==
    {id \in DOMAIN results : results[id].success /\ Truthy(results[id].result)}

synthesisUpdate(s, key, reply) ==
    IF ~key
    THEN [NoChange EXCEPT !.error = Str("No API key found"),
                          !.finalResult = Str("Could not synthesize results: No API key found"),
                          !.nextStep = END]
    ELSE IF CompletedTasks(s.results) = {}
    THEN [NoChange EXCEPT !.finalResult = Str("No completed subtasks to synthesize."),
                          !.nextStep = END]
    ELSE CASE reply \in {Throws, "invalid"} ->
                [NoChange EXCEPT
                    !.error = << "Error synthesizing results: ", "Error" >>,
                    !.finalResult = << "Failed to synthesize results: ", "Error" >>,
                    !.nextStep = END]
           [] reply = "blank" ->
                [NoChange EXCEPT
                    !.error = Str("Empty response received from LLM"),
                    !.finalResult = Str("The AI assistant generated an empty response. Please try your query again."),
                    !.nextStep = END]
           [] OTHER -> [NoChange EXCEPT !.finalResult = Str("synthesis text"), !.nextStep = END]

DepFrame == UNCHANGED << execVars, loopVars, wsVars >>

planExecution ==
    /\ graph.node = "planExecution"
    /\ \E outcome \in PlannerOutcomes, plan \in ParsedPlans :
            graph' = SuperStep(graph, "planExecution", planUpdate(graph, apiKey, outcome, plan))
    /\ DepFrame

selectNextSubtask ==
    /\ graph.node = "selectNextSubtask"
    /\ graph' = SuperStep(graph, "selectNextSubtask", selectUpdate(graph))
    /\ DepFrame

executeAnalysisTask(reply) ==
    /\ graph.node = "executeAnalysisTask"
    /\ graph' = SuperStep(graph, "executeAnalysisTask", executorUpdate(graph, apiKey, reply))
    /\ DepFrame

executeGenerationTask(reply) ==
    /\ graph.node = "executeGenerationTask"
    /\ graph' = SuperStep(graph, "executeGenerationTask", executorUpdate(graph, apiKey, reply))
    /\ DepFrame

executeTestTask(reply) ==
    /\ graph.node = "executeTestTask"
    /\ graph' = SuperStep(graph, "executeTestTask", executorUpdate(graph, apiKey, reply))
    /\ DepFrame

synthesizeResults(reply) ==
    /\ graph.node = "synthesizeResults"
    /\ graph' = SuperStep(graph, "synthesizeResults", synthesisUpdate(graph, apiKey, reply))
    /\ DepFrame

DepInit ==
    /\ ExecParked
    /\ WsParked
    /\ apiKey \in BOOLEAN
    /\ LoopParked
    /\ graph \in {InitialGraph(q) : q \in {qq \in Queries : ~IsFileChangeCommand(qq)}}

DepNext ==
    \/ planExecution
    \/ selectNextSubtask
    \/ \E reply \in ContentReplies : executeAnalysisTask(reply)
    \/ \E reply \in ContentReplies : executeGenerationTask(reply)
    \/ \E reply \in ContentReplies : executeTestTask(reply)
    \/ \E reply \in ContentReplies : synthesizeResults(reply)

SpecDep == DepInit /\ [][DepNext]_vars

\* ---------------------------------------------- SpecUndo
WsFrame == UNCHANGED << execVars, loopVars, depVars >>

\* The step applies what a method left behind; a change counts when the
\* method returned true, and a change made after an undo breaks the shape
\* "k changes, then k undos".
Applied(method, o) ==
    /\ fsFiles' = o.files
    /\ changeHistory' = o.changeHistory
    /\ undoLog' =
          [undoLog EXCEPT
             !.method = method,
             !.returned = o.returned,
             !.failed = @ \/ o.returned = Throws,
             !.changes = IF method # "undoLastChange" /\ o.returned = "true" THEN @ + 1 ELSE @,
             !.mixed = @ \/ (method # "undoLastChange" /\ o.returned = "true"
                                /\ undoLog.undos > 0),
             !.undos = IF method = "undoLastChange" THEN @ + 1 ELSE @]
    /\ WsFrame

WriteFile(filePath, content, confirmed, io) ==
    /\ undoLog.changes < MaxChanges
    /\ Applied("writeFile",
               writeFile(fsFiles, changeHistory, filePath, content, TRUE, confirmed, io))

DeleteFile(filePath, confirmed, io) ==
    /\ undoLog.changes < MaxChanges
    /\ Applied("deleteFile", deleteFile(fsFiles, changeHistory, filePath, TRUE, confirmed, io))

UndoLastChange(io) ==
    /\ undoLog.undos <= MaxChanges
    /\ Applied("undoLastChange", undoLastChange(fsFiles, changeHistory, io))

UndoInit ==
    /\ ExecParked
    /\ apiKey = TRUE
    /\ LoopParked
    /\ graph = NoGraph
    /\ fsFiles \in [WorkspacePaths -> FileContents \cup {NoFile}]
    /\ changeHistory = << >>
    /\ undoLog = [NoCalls EXCEPT !.original = fsFiles]

UndoNext ==
    \/ \E filePath \in WorkspacePaths, content \in FileContents, confirmed \in BOOLEAN,
          io \in {"ok", Throws} : WriteFile(filePath, content, confirmed, io)
    \/ \E filePath \in WorkspacePaths, confirmed \in BOOLEAN, io \in {"ok", Throws} :
          DeleteFile(filePath, confirmed, io)
    \/ \E io \in {"ok", Throws} : UndoLastChange(io)

SpecUndo == UndoInit /\ [][UndoNext]_vars


\* ---------------------------------------------- properties of SpecDep
ExecutorNodes == {"executeAnalysisTask", "executeGenerationTask", "executeTestTask"}
LastNode(s) == IF s.trace = << >> THEN "none" ELSE s.trace[Len(s.trace)]

\* C7 as stated: the subtask an executor is about to run has no recorded
\* result, and every id of its dependsOn is a key of results.
C7_AsStated ==
    graph.node \in ExecutorNodes =>
        /\ graph.currentSubtask.id \notin DOMAIN graph.results
        /\ graph.currentSubtask.dependsOn \subseteq DOMAIN graph.results

\* Two subtasks of the plan depend on each other.
MutuallyDependent(subtasks) ==
    \E a, b \in 1 .. Len(subtasks) :
        /\ a # b
        /\ subtasks[a].id \in subtasks[b].dependsOn
        /\ subtasks[b].id \in subtasks[a].dependsOn

\* C8: when selectNextSubtask finds pending subtasks but none eligible it
\* sets the cycle error and hands over to synthesizeResults; a run whose plan
\* holds two subtasks depending on each other ends at End, through
\* selectNextSubtask and synthesizeResults, with an error message and a
\* final result, after a bounded number of steps.
C8_DependencyCycle ==
    /\ (LastNode(graph) = "selectNextSubtask" /\ PendingSubtasks(graph) # << >>
            /\ EligibleSubtasks(graph) = << >>) =>
          graph.error = CycleError /\ graph.node = "synthesizeResults"
    /\ Len(graph.trace) <= 2 * Len(graph.subtasks) + 3
    /\ (MutuallyDependent(graph.subtasks) /\ graph.node = END) =>
          /\ Len(graph.trace) >= 3
          /\ graph.trace[Len(graph.trace) - 1] = "selectNextSubtask"
          /\ LastNode(graph) = "synthesizeResults"
          /\ graph.error \in {CycleError, << "Error synthesizing results: ", "Error" >>,
                              Str("Empty response received from LLM")}
          /\ Truthy(graph.finalResult)

\* A run planned with two subtasks depending on each other has ended.
C8_Witness ==
    /\ MutuallyDependent(graph.subtasks)
    /\ graph.node = END
    /\ graph.error = CycleError

\* cancel() of Agent and of AgentExecutor: a log line and the progress event
\* 'Cancellation requested'; the method returns nothing.
CancellationRequested == [NoReturn EXCEPT !.object = "cancel"]
\* A cancel that gives the running flag back.
Cancel_ReleasesFlag ==
    /\ lastReturn' = CancellationRequested
    /\ agentIsExecuting' = FALSE
    /\ executorIsExecuting' = FALSE
    /\ UNCHANGED << apiKey, entry, pc, call, run, orch, pendingFileChanges, loopVars, depVars, wsVars >>
Cancel ==
    /\ lastReturn' = CancellationRequested
    /\ UNCHANGED << apiKey, entry, agentIsExecuting, executorIsExecuting, pc, call, run, orch,
                    pendingFileChanges, loopVars, depVars, wsVars >>

\* ------------------------------------------------------------ Spec
Init ==
    /\ LoopParked
    /\ graph = NoGraph
    /\ WsParked
    /\ apiKey \in BOOLEAN
    /\ entry \in {"agent", "executor"}
    /\ agentIsExecuting = FALSE
    /\ executorIsExecuting = FALSE
    /\ pc = [c \in Calls |-> "idle"]
    /\ call = [c \in Calls |-> NoCall]
    /\ run = [c \in Calls |-> NoRun]
    /\ orch = [c \in Calls |-> NoOrch]
    /\ pendingFileChanges = {}
    /\ lastReturn = NoReturn

Next ==
    \/ \E c \in Calls, q \in Queries, folderOpen \in BOOLEAN : AgentExecute(c, q, folderOpen)
    \/ \E c \in Calls, outcome \in {"written", "declined", Throws} : AgentApplyDone(c, outcome)
    \/ \E c \in Calls, reply \in ClassifierReplies : PlanExecution(c, reply)
    \/ \E c \in Calls, reply \in TaskReplies, edits \in SUBSET Files :
            ExecuteAnalysisTask(c, reply, edits)
    \/ \E c \in Calls, reply \in TaskReplies : ExecuteAnalysisTaskBoundTools(c, reply)
    \/ \E c \in Calls, reply \in TaskReplies, edits \in SUBSET Files :
            ExecuteGenerationTask(c, reply, edits)
    \/ \E c \in Calls, reply \in TaskReplies : ExecuteGenerationTaskBoundTools(c, reply)
    \/ \E c \in Calls, reply \in TaskReplies, edits \in SUBSET Files :
            ExecuteTestTask(c, reply, edits)
    \/ \E c \in Calls, reply \in SynthesisReplies : SynthesizeResults(c, reply)
    \/ \E c \in Calls : AgentGraphReturns(c)
    \/ \E c \in Calls, aboutWorkspaceFolder \in BOOLEAN :
            AgentGraphThrows(c, aboutWorkspaceFolder)
    \/ \E c \in Calls, q \in Queries, folderOpen \in BOOLEAN :
            ExecutorExecute(c, q, folderOpen)
    \/ \E c \in Calls, reply \in PlanFailures \cup {"empty plan"} : OrchPlanFails(c, reply)
    \/ \E c \in Calls : OrchPlan(c)
    \/ \E c \in Calls, reply \in WorkerReplies : OrchSubtask(c, reply)
    \/ \E c \in Calls, reply \in SynthesisReplies : OrchSynthesize(c, reply)
    \/ Cancel

Spec == Init /\ [][Next]_vars

\* ------------------------------------------------- properties of Spec
\* The flag of the object the panel calls.
Busy == IF entry = "agent" THEN agentIsExecuting ELSE executorIsExecuting
InFlight == {c \in Calls : pc[c] \in {"graph", "orchestrator"}}
\* This step is the arrival of execute invocation c: it was not outstanding,
\* and the step either returns its value or leaves it suspended.
Arrives(c) == pc[c] = "idle" /\ (lastReturn'.call = c \/ pc'[c] # "idle")
\* The arriving query is an accept/reject command.
ArrivesWithCommand(c) == Arrives(c) /\ (lastReturn'.command \/ pc'[c] = "applying")
\* The step returns the "already executing" error to c and does nothing else.
RejectedAtOnce(c) ==
    /\ lastReturn'.call = c
    /\ lastReturn'.value = Failure(AlreadyExecuting)
    /\ UNCHANGED << agentIsExecuting, executorIsExecuting, pc, call, run, orch,
                    pendingFileChanges >>

C2_FlagReleased ==
    /\ agentIsExecuting <=> (\E c \in Calls : pc[c] = "graph")
    /\ executorIsExecuting <=> (\E c \in Calls : pc[c] = "orchestrator")
    /\ (lastReturn.call # 0 /\ lastReturn.value.error \in {NoWorkspaceFolder, EmptyQueryError})
            => ~Busy
    /\ (lastReturn.call # 0 /\ lastReturn.value.error = AlreadyExecuting) => Busy

\* execute has just returned from its catch block, and the flag is clear.
C2_Witness ==
    /\ lastReturn.value = CaughtResult(FALSE)
    /\ ~agentIsExecuting

\* C3: every value execute returns has success=true and a non-empty
\* response, or success=false and a non-empty error.
C3_ResultShape ==
    lastReturn.call # 0 =>
        \/ lastReturn.value.success /\ Truthy(lastReturn.value.response)
        \/ ~lastReturn.value.success /\ Truthy(lastReturn.value.error)

\* A run that ended with neither error nor finalResult has just returned.
C3_Witness ==
    lastReturn.value = Success(Str("Task completed but no results were generated"))

\* The node the graph entered after planExecution.
FirstNodeAfterPlan(s) == IF Len(s.trace) >= 2 THEN s.trace[2] ELSE s.node
Planned(c) == pc[c] = "graph" /\ Len(run[c].trace) >= 1

\* C9: after Plan, token executeAnalysisTask runs Analysis with
\* requiresGeneration false; executeGenerationTask runs Generation;
\* executeAnalysisWithGeneration sets requiresGeneration and runs Analysis;
\* handleIrrelevantQuery ends the run with no subtask run and no finalResult.
C9_ClassificationRouting ==
    \A c \in Calls : Planned(c) =>
        LET s == run[c] IN
        /\ s.token = "executeAnalysisTask" =>
                FirstNodeAfterPlan(s) = "executeAnalysisTask" /\ ~s.requiresGeneration
        /\ s.token = "executeGenerationTask" =>
                FirstNodeAfterPlan(s) = "executeGenerationTask"
        /\ s.token = "executeAnalysisWithGeneration" =>
                FirstNodeAfterPlan(s) = "executeAnalysisTask" /\ s.requiresGeneration
        /\ s.token = "handleIrrelevantQuery" =>
                /\ s.node = END
                /\ s.trace = << "planExecution" >>
                /\ s.results = NoResults
                /\ s.finalResult = Undefined

\* An analysis-with-generation run has passed Analysis.
C9_Witness ==
    \E c \in Calls :
        /\ Planned(c)
        /\ run[c].token = "executeAnalysisWithGeneration"
        /\ Len(run[c].trace) >= 2

\* The classifier answered with a token outside the enumeration.
UnknownToken(s) == s.token # "" /\ s.token \notin TaskTypes

\* C10: a token outside the four sends the run from Plan straight to End:
\* no subtask is executed, and planExecution throws nothing: the graph is at
\* End, where graph.invoke resolves, with at most a caught error recorded.
C10_ClassificationFallback ==
    \A c \in Calls : (Planned(c) /\ UnknownToken(run[c])) =>
        /\ run[c].node = END
        /\ run[c].trace = << "planExecution" >>
        /\ run[c].results = NoResults
        /\ run[c].error \in {Null, << "Error analysing task: ", "TypeError" >>}

\* A run was classified with a name every object inherits.
C10_Witness ==
    \E c \in Calls : Planned(c) /\ run[c].token = "toString" /\ run[c].node = END

\* The nodes run so far, then the node to run next.
Path(s) == Append(s.trace, s.node)
Ran(s, n) == \E p \in 1 .. Len(s.trace) : s.trace[p] = n

\* C11: in every run, wherever Generation has run, the node after it is
\* Test, the node after that Synthesize, and then End, whatever the nodes
\* returned; a run that reached End after Generation ran Test before.
C11_FixedEdges ==
    \A c \in Calls : pc[c] = "graph" =>
        LET s == run[c] IN
        /\ \A p \in 1 .. Len(s.trace) :
              s.trace[p] = "executeGenerationTask" =>
                 /\ Path(s)[p + 1] = "executeTestTask"
                 /\ p + 2 <= Len(Path(s)) => Path(s)[p + 2] = "synthesizeResults"
                 /\ p + 3 <= Len(Path(s)) => Path(s)[p + 3] = END
        /\ (s.node = END /\ Ran(s, "executeGenerationTask")) => Ran(s, "executeTestTask")

\* A run in which Generation failed has gone through Test and Synthesize to End.
C11_Witness ==
    \E c \in Calls :
        /\ pc[c] = "graph"
        /\ run[c].node = END
        /\ Ran(run[c], "executeGenerationTask")
        /\ "generation" \in DOMAIN run[c].results
        /\ ~run[c].results["generation"].success

\* C12 as stated: when a run classified executeAnalysisWithGeneration has
\* run Analysis, Generation and Test, all three with success, results holds
\* the three entries analysis, generation and test as Synthesize starts, and
\* Synthesize calls the model.
C12_AsStated ==
    \A c \in Calls :
        (/\ pc[c] = "graph"
         /\ run[c].token = "executeAnalysisWithGeneration"
         /\ run[c].node = "synthesizeResults"
         /\ run[c].outcomes = << TRUE, TRUE, TRUE >>) =>
            /\ DOMAIN run[c].results = {"analysis", "generation", "test"}
            /\ SynthesisCallsModel(run[c], apiKey)

\* C13 as stated: in a run classified executeAnalysisTask, Analysis is
\* followed directly by Synthesize; Generation and Test never execute.
C13_AsStated ==
    \A c \in Calls :
        (pc[c] = "graph" /\ run[c].token = "executeAnalysisTask") =>
            LET s == run[c] IN
            /\ ~Ran(s, "executeGenerationTask")
            /\ ~Ran(s, "executeTestTask")
            /\ \A p \in 1 .. Len(s.trace) :
                  s.trace[p] = "executeAnalysisTask" =>
                      Path(s)[p + 1] = "synthesizeResults"

NoSuccessfulResult(results) == \A id \in DOMAIN results : ~results[id].success
NoCompletedSubtask(subTasks) == \A i \in 1 .. Len(subTasks) : ~subTasks[i].completed
LastRan(s, n) == Len(s.trace) > 0 /\ s.trace[Len(s.trace)] = n

\* C14: when no entry of results is successful as synthesizeResults starts,
\* finalResult is the fixed message 'No results available to synthesize.'
\* whatever the model would answer, and no model call is made; the
\* Orchestrator's synthesizeResults, given no completed subtask, returns
\* 'No completed subtasks to synthesize.' whatever the model would answer.
C14_NothingToSynthesize ==
    \A c \in Calls :
        /\ (/\ pc[c] = "graph"
            /\ run[c].node = "synthesizeResults"
            /\ NoSuccessfulResult(run[c].results)) =>
               /\ ~SynthesisCallsModel(run[c], apiKey)
               /\ \A reply \in SynthesisReplies :
                     LET s == GraphStep(run[c], "synthesizeResults",
                                        SynthesisUpdate(run[c], apiKey, reply))
                     IN /\ s.finalResult = Str("No results available to synthesize.")
                        /\ s.node = END
        /\ (/\ pc[c] = "graph"
            /\ run[c].node = END
            /\ LastRan(run[c], "synthesizeResults")
            /\ NoSuccessfulResult(run[c].results)) =>
               run[c].finalResult = Str("No results available to synthesize.")
        /\ (/\ InOrch(c, "loop")
            /\ orch[c].idx > Len(orch[c].subTasks)
            /\ NoCompletedSubtask(orch[c].subTasks)) =>
               \A reply \in SynthesisReplies :
                  OrchSynthesis(orch[c].subTasks, apiKey, reply)
                     = Str("No completed subtasks to synthesize.")

\* A run ended by synthesizeResults with a single, failed, result.
C14_Witness ==
    \E c \in Calls :
        /\ pc[c] = "graph"
        /\ run[c].node = END
        /\ LastRan(run[c], "synthesizeResults")
        /\ DOMAIN run[c].results # {}
        /\ NoSuccessfulResult(run[c].results)
        /\ run[c].finalResult = Str("No results available to synthesize.")

\* C14 in the dependency-scheduled graph: with no successful result,
\* synthesizeResults sets 'No completed subtasks to synthesize.' whatever
\* the model would answer.
C14_DependencyGraph ==
    (graph.node = "synthesizeResults" /\ NoSuccessfulResult(graph.results)) =>
        \A reply \in ContentReplies :
            synthesisUpdate(graph, apiKey, reply).finalResult
                = Str("No completed subtasks to synthesize.")

SuccessfulResults(results) == {id \in DOMAIN results : results[id].success}

\* C15 as stated: when exactly one entry of results is successful,
\* synthesizeResults makes no model call and finalResult is exactly that
\* entry's result text; likewise the Orchestrator's synthesizeResults with
\* exactly one completed subtask returns that subtask's result whatever the
\* model would answer.
C15_AsStated ==
    \A c \in Calls :
        /\ (/\ pc[c] = "graph"
            /\ run[c].node = END
            /\ LastRan(run[c], "synthesizeResults")
            /\ \E id \in DOMAIN run[c].results :
                  SuccessfulResults(run[c].results) = {id}) =>
               LET id == CHOOSE k \in DOMAIN run[c].results : run[c].results[k].success
               IN run[c].finalResult = run[c].results[id].result
        /\ (/\ InOrch(c, "loop")
            /\ orch[c].idx > Len(orch[c].subTasks)
            /\ \E i \in 1 .. Len(orch[c].subTasks) :
                  \A j \in 1 .. Len(orch[c].subTasks) :
                     orch[c].subTasks[j].completed <=> j = i) =>
               LET i == CHOOSE j \in 1 .. Len(orch[c].subTasks) :
                           orch[c].subTasks[j].completed
               IN \A reply \in SynthesisReplies :
                     OrchSynthesis(orch[c].subTasks, apiKey, reply)
                        = orch[c].subTasks[i].result

\* C16 as stated: whenever the synthesis model call returns empty text, the
\* synthesizer's caller gets an error and a placeholder text, never a
\* successful response: in the classification-routed graph error and
\* finalResult are both set, and the Orchestrator's response is a failure
\* that carries an error.
C16_AsStated ==
    \A c \in Calls :
        /\ (/\ pc[c] = "graph"
            /\ run[c].node = "synthesizeResults"
            /\ SynthesisCallsModel(run[c], apiKey)) =>
               LET s == GraphStep(run[c], "synthesizeResults",
                                  SynthesisUpdate(run[c], apiKey, ""))
               IN /\ Truthy(s.error)
                  /\ Truthy(s.finalResult)
                  /\ ~GraphResult(s).success
        /\ (/\ InOrch(c, "loop")
            /\ orch[c].idx > Len(orch[c].subTasks)
            /\ apiKey
            /\ \E i \in 1 .. Len(orch[c].subTasks) :
                  orch[c].subTasks[i].completed /\ Truthy(orch[c].subTasks[i].result)) =>
               LET response == OrchSuccess(OrchSynthesis(orch[c].subTasks, apiKey, ""))
                   r == OrchestratorResult(response)
               IN /\ Truthy(r.error)
                  /\ ~r.success

\* C17 as stated: results only grows across a run: no step of a run removes
\* a key of results or replaces the value recorded under a key.
C17_AsStated ==
    [][\A c \in Calls :
          (pc[c] = "graph" /\ pc'[c] = "graph") =>
             \A k \in DOMAIN run[c].results :
                /\ k \in DOMAIN run'[c].results
                /\ run'[c].results[k] = run[c].results[k]]_vars

\* C18 as stated: once error is set in a run, no subtask executor runs
\* afterwards: the node about to run is synthesizeResults or END.
C18_AsStated ==
    \A c \in Calls :
        (pc[c] = "graph" /\ Truthy(run[c].error)) =>
            run[c].node \in {"synthesizeResults", END}

\* C19 as stated: in every terminal state of the dependency-scheduled graph
\* in which error is set, finalResult is set as well.
C19_AsStated ==
    (graph.node = END /\ Truthy(graph.error)) => Truthy(graph.finalResult)

DeclineTexts == {DeclineError(name) : name \in ConfirmedTools}
MentionsDecline(m) == \E p \in 1 .. Len(m.content) : m.content[p] \in DeclineTexts
\* The tool message of a ToolResult {success: false, error: <decline>}.
DeclineReported(m) ==
    /\ m.role = "tool"
    /\ m.toolName \in ConfirmedTools
    /\ m.content = << "{success:false,error:", DeclineError(m.toolName), "}" >>

C21_OneSubtaskInFlight ==
    [][/\ graph.node \notin ExecutorNodes => graph'.results = graph.results
       /\ graph.node \in ExecutorNodes =>
             /\ DOMAIN graph'.results \subseteq DOMAIN graph.results \cup {graph.currentSubtask.id}
             /\ \A id \in DOMAIN graph.results : graph'.results[id] = graph.results[id]
             /\ Len(graph'.trace) = Len(graph.trace) + 1]_vars

\* One subtask has run and recorded its result while another pending
\* subtask was eligible all along.
C21_Witness ==
    /\ graph.node = "selectNextSubtask"
    /\ Cardinality(DOMAIN graph.results) = 1
    /\ Len(graph.subtasks) = 2
    /\ \A j \in 1 .. 2 : graph.subtasks[j].dependsOn = {}
    /\ Len(EligibleSubtasks(graph)) = 1

\* C22 as stated: while a run is in flight, the pending-change registry is
\* changed only by a step of that run: no other execute invocation changes it.
C22_AsStated ==
    [][((\E r \in Calls : pc[r] = "graph") /\ pendingFileChanges' # pendingFileChanges) =>
          \E r \in Calls : pc[r] = "graph" /\ run'[r] # run[r]]_vars

\* This step is node n of the run of call c.
NodeStep(c, n) ==
    pc[c] = "graph" /\ pc'[c] = "graph" /\ run[c].node = n /\ run'[c] # run[c]

C24_AsStated ==
    [][\A c \in Calls, n \in ExecutorNodes :
          (NodeStep(c, n) /\ run'[c].error # run[c].error /\ Truthy(run'[c].error)) =>
             run'[c].node = run'[c].nextStep]_vars

\* C25 as stated: a run in which the dependency-cycle error was raised ends
\* without a synthesis model call: its finalResult is the fixed text of a
\* synthesis that had nothing to do, never the answer of the model.
C25_AsStated ==
    (graph.node = END /\ graph.error = CycleError) =>
        graph.finalResult = Str("No completed subtasks to synthesize.")

\* The pending subtasks, in plan order, whose dependsOn ids are all keys of
\* results.
RecordedReady(s) ==
    LET Ready(task) == task.id \notin DOMAIN s.results /\ task.dependsOn \subseteq DOMAIN s.results
    IN SelectSeq(s.subtasks, Ready)

\* C26 as stated: selectNextSubtask selects the first pending subtask, in
\* plan order, whose dependsOn ids are all in results; and a state holding a
\* pending subtask without dependencies never yields the cycle error.
C26_AsStated ==
    [][(graph.node = "selectNextSubtask" /\ graph' # graph) =>
          /\ graph'.node \in ExecutorNodes =>
                /\ RecordedReady(graph) # << >>
                /\ graph'.currentSubtask = RecordedReady(graph)[1]
          /\ (\E j \in 1 .. Len(graph.subtasks) :
                 /\ graph.subtasks[j].id \notin DOMAIN graph.results
                 /\ graph.subtasks[j].dependsOn = {}) => graph'.error # CycleError]_vars

RECURSIVE CountIn(_, _)
\* The number of entries of trace that are members of nodes.
CountIn(trace, nodes) ==
    IF trace = << >> THEN 0
    ELSE (IF Head(trace) \in nodes THEN 1 ELSE 0) + CountIn(Tail(trace), nodes)

\* C27: every run of the dependency-scheduled graph is bounded and cannot
\* get stuck before END: the executor steps taken never outnumber the
\* subtasks of the plan, each of them recorded the result of a subtask that
\* had none, the run has taken at most 2 * #subtasks + 3 steps, and while
\* the run is not at END its next node is a node of the graph, which runs
\* whatever the state holds.
C27_Terminates ==
    LET executed == CountIn(graph.trace, ExecutorNodes) IN
    /\ executed <= Len(graph.subtasks)
    /\ executed = Cardinality(DOMAIN graph.results)
    /\ Len(graph.trace) <= 2 * Len(graph.subtasks) + 3
    /\ graph.node # END =>
          graph.node \in {"planExecution", "selectNextSubtask", "synthesizeResults"}
                            \cup ExecutorNodes

\* A run that executed both subtasks of its plan and reached END.
C27_Witness ==
    /\ graph.node = END
    /\ Len(graph.subtasks) = 2
    /\ CountIn(graph.trace, ExecutorNodes) = 2
    /\ LastRan(graph, "synthesizeResults")

\* The ids of a plan's subtasks.
PlanIds(subTasks) == {subTasks[i].id : i \in 1 .. Len(subTasks)}

\* Every dependsOn id names a subtask of the plan, and no subtask depends
\* on itself through a chain of dependencies.
WellFormedPlan(subTasks) ==
    /\ \A i \in 1 .. Len(subTasks) : subTasks[i].dependsOn \subseteq PlanIds(subTasks)
    /\ \A S \in (SUBSET (1 .. Len(subTasks))) \ {{}} :
          \E i \in S : \A j \in S : subTasks[j].id \notin subTasks[i].dependsOn

\* C28: for an acyclic plan whose dependsOn ids all name subtasks of the
\* plan, every subtask has been executed and has a recorded result by the
\* time synthesis runs, a failed dependency included: when the
\* Orchestrator's loop is over, no subtask of such a plan is left without a
\* result.
C28_AsStated ==
    \A c \in Calls :
        (/\ InOrch(c, "loop")
         /\ orch[c].idx > Len(orch[c].subTasks)
         /\ WellFormedPlan(orch[c].subTasks))
        => \A i \in 1 .. Len(orch[c].subTasks) : orch[c].subTasks[i].result # Undefined

\* The tools a subtask's executor invoked, read off the recorded result:
\* the text lists the results of the executed tool calls.
InvokedTools(r) ==
    IF \E k \in 1 .. Len(r.result) : r.result[k] = "Tool Execution Results:"
    THEN ToolCallNames("tools")
    ELSE << >>

\* toolsUsed of a result, an absent field read as the empty list.
UsedTools(r) == IF r.toolsUsed = Undefined THEN << >> ELSE r.toolsUsed

\* C29: the toolsUsed of a subtask's result is exactly the sequence, in call
\* order, of the names of the tool calls that were invoked during the
\* subtask: every result recorded by an executor of the graph lists the
\* tools the executor ran, and no others.
C29_AsStated ==
    \A c \in Calls :
        pc[c] = "graph" =>
            \A id \in DOMAIN run[c].results :
                UsedTools(run[c].results[id]) = InvokedTools(run[c].results[id])

\* The same for AgentWorker.executeWithToolLoop alone: what the loop returns
\* lists the registered tools it ran, in the order of their tool messages.
RanTools(msgs) ==
    LET IsRun(m) == m.role = "tool" /\ m.toolName \in RegisteredTools
        ran == SelectSeq(msgs, IsRun)
    IN [k \in 1 .. Len(ran) |-> ran[k].toolName]
C29_LoopReturn ==
    (lpc = "done" /\ (workerReturn.success \/ workerReturn.error = Str("Max tool calls exceeded")))
        => workerReturn.toolsUsed = RanTools(messages)

\* The positions of the assistant messages.
AssistantAt(msgs) == {k \in 1 .. Len(msgs) : msgs[k].role = "assistant"}
\* The rounds whose model call returned a response.
RoundsAnswered ==
    round + (IF lpc = "tools" \/ (lpc = "done" /\ workerReturn.success) THEN 1 ELSE 0)

\* C30: the message list of the tool loop: every round whose model call
\* returned has appended one assistant message, followed by one tool
\* message per tool call of the response, in the order of the response and
\* with the name and the toolCallId of its call, whether the tool ran, threw
\* or is unknown; and the call that is next to run is the first one without
\* a message, so no call starts before the message of the one before it.
C30_MessageList ==
    /\ Cardinality(AssistantAt(messages)) = RoundsAnswered
    /\ \A k \in 1 .. Len(messages) :
          messages[k].role = "tool" =>
              /\ k > 1
              /\ \/ /\ messages[k - 1].role = "assistant"
                    /\ messages[k].toolCallId = CallIds[1]
                 \/ /\ messages[k - 1].role = "tool"
                    /\ \E p \in 1 .. (Len(CallIds) - 1) :
                          /\ messages[k - 1].toolCallId = CallIds[p]
                          /\ messages[k].toolCallId = CallIds[p + 1]
    /\ (llmMessage.tool_calls # << >> /\ ~ParseThrows(llmMessage)) =>
          LET base == LastAssistant(messages) IN
          /\ Len(messages) = base + CallsProcessed
          /\ \A j \in 1 .. CallsProcessed :
                /\ messages[base + j].role = "tool"
                /\ messages[base + j].toolName = llmMessage.tool_calls[j].name
                /\ messages[base + j].toolCallId = llmMessage.tool_calls[j].id
          /\ lpc = "tools" => callIndex = Len(messages) - base + 1

\* Two rounds have run, and an unknown tool, a tool that threw and a tool
\* that succeeded each have their message.
C30_Witness ==
    /\ lpc = "done"
    /\ Cardinality(AssistantAt(messages)) = 2
    /\ \E k \in 1 .. Len(messages) : messages[k].content = NotFoundMessage("deleteFile").content
    /\ \E k \in 1 .. Len(messages) : messages[k].content = ToolMessage("writeFile", "throws").content
    /\ \E k \in 1 .. Len(messages) : messages[k].content = ToolMessage("writeFile", "ok").content
    /\ \E k \in 1 .. Len(messages) : messages[k].toolCallId = CallIds[2]

\* The ways the model call of a subtask fails: the request throws or is
\* answered with a non-success status, or the payload holds no text.
TransportFailures == {Throws, "invalid"}

C32_Agent ==
    /\ \A c \in Calls :
          (pc[c] = "graph" /\ run[c].node # "planExecution" /\ ~apiKey) =>
              /\ run[c].node = END
              /\ run[c].trace = << "planExecution" >>
              /\ run[c].token = ""
              /\ run[c].error = Str("No API key found")
    /\ \A c \in Calls : pc[c] = "graph" => ~IsEmptyQuery(run[c].query)

\* C33 as stated: every WorkerResult with success false has an empty result
\* text: whatever way the worker's loop ends in a failure, the response it
\* returns has result ''.
C33_AsStated ==
    (lpc = "done" /\ ~workerReturn.success) => workerReturn.result = EmptyText

\* C34 as stated: no subtask is failed or skipped because of its type: the
\* Orchestrator hands every subtask whose dependencies are completed to a
\* worker, so the step it takes when the worker answers with reply records
\* the worker's response to reply, whatever the subtask's type.
C34_AsStated ==
    [][\A c \in Calls, reply \in WorkerReplies :
          (/\ InOrch(c, "loop")
           /\ orch[c].idx <= Len(orch[c].subTasks)
           /\ NotAnArray \notin orch[c].subTasks[orch[c].idx].dependsOn
           /\ AllDependenciesCompleted(orch[c].subTasks, orch[c].subTasks[orch[c].idx])
           /\ OrchSubtask(c, reply))
          => /\ orch'[c].subTasks[orch[c].idx].completed = WorkerResponse(reply).success
             /\ orch'[c].subTasks[orch[c].idx].result = WorkerResponse(reply).result]_vars

\* C35 as stated: error is set once: after the run's error first became
\* non-null, no step of the run changes it.
C35_AsStated ==
    [][(graph.node # "none" /\ graph.error # Null /\ graph.error # Undefined)
          => graph'.error = graph.error]_vars

\* A call of execute is between its guard and its return.
RunInFlight == \E c \in Calls : pc[c] \in {"graph", "orchestrator", "applying"}

\* C36: cancel() aborts nothing: the step of a cancel() leaves the running
\* flags, every call's position, the state of every run and of the
\* Orchestrator and the pending changes as they were; all it does is fire
\* 'Cancellation requested'. The run in flight goes on from the same state.
C36_CancelAbortsNothing ==
    [][lastReturn' = CancellationRequested =>
          UNCHANGED << apiKey, entry, agentIsExecuting, executorIsExecuting, pc, call, run,
                       orch, pendingFileChanges >>]_vars

\* cancel() was called in the middle of a run, which still holds the flag.
C36_Witness ==
    /\ lastReturn = CancellationRequested
    /\ RunInFlight
    /\ agentIsExecuting \/ executorIsExecuting
    /\ \E c \in Calls : pc[c] = "graph" /\ Len(run[c].trace) >= 1

\* The subtask has been handed to a worker (or failed for its type): only
\* then does it carry a result.
Executed(st) == st.result # Undefined

C38_RoutingDeclared ==
    graph.node # "none" =>
       /\ Path(graph)[1] = "planExecution"
       /\ \A p \in 1 .. Len(graph.trace) :
             Path(graph)[p + 1] \in DeclaredSuccessors(graph.trace[p])

\* selectNextSubtask has just routed a subtask of a type without a case of
\* its own to the Analysis executor.
C38_Witness ==
    /\ LastRan(graph, "selectNextSubtask")
    /\ graph.node = "executeAnalysisTask"
    /\ graph.currentSubtask.type = "review"

\* The same for the classification-routed graph: what routeFromOrchestrator,
\* routeFromAnalysis and the fixed edges choose after a node is a successor
\* declared for that node.
C38_ClassificationGraph ==
    \A c \in Calls : pc[c] = "graph" =>
       /\ Path(run[c])[1] = "planExecution"
       /\ \A p \in 1 .. Len(run[c].trace) :
             Path(run[c])[p + 1] \in AgentGraphEdges(run[c].trace[p])

\* C39 as stated: a subtask that depends on itself, or on an id that names
\* no subtask of the plan, is never executed: the subtask an executor is
\* about to run depends only on other subtasks of the plan.
C39_AsStated ==
    graph.node \in ExecutorNodes =>
        /\ graph.currentSubtask.id \notin graph.currentSubtask.dependsOn
        /\ graph.currentSubtask.dependsOn \subseteq PlanIds(graph.subtasks)


\* k confirmed changes have been followed by n calls of undoLastChange, and
\* no call failed on the file system.
RoundTrip(n) ==
    /\ undoLog.changes >= 1
    /\ undoLog.undos = n
    /\ ~undoLog.mixed
    /\ ~undoLog.failed

\* C40 as stated: after k confirmed changes (writeFile or deleteFile)
\* followed by k calls of undoLastChange every file has its original content
\* or is absent again and the change history is empty, and the call of
\* undoLastChange after those returns false.
C40_AsStated ==
    /\ RoundTrip(undoLog.changes) =>
          /\ fsFiles = undoLog.original
          /\ changeHistory = << >>
    /\ RoundTrip(undoLog.changes + 1) => undoLog.returned = "false"

====
